---- MODULE Spec2Model ----
(***************************************************************************)
(* State-machine model of the paper-summary service.                       *)
(*                                                                         *)
(* The repository ships the same service twice: a bearer-token server      *)
(* whose users and tokens live in one in-process Map (src/unnamed/part_001)*)
(* and a cookie-session server backed by SQLite (src/unnamed/part_002 with *)
(* src/config/db.js).  A deployment runs one of them; `variant` says which.*)
(*                                                                         *)
(* Text (emails, passwords, model replies) is a sequence of one-character  *)
(* strings, so trimming, lower-casing, quote normalisation and JSON        *)
(* parsing are computed character by character.                            *)
(*                                                                         *)
(* Five machines share the module: the session gate (signup, login,        *)
(* logout and the routes behind requireAuth), the summarization step       *)
(* (summarizeForReview on a reply of the model, then the page and the      *)
(* export coercing the summary), the POST /api/analyze handler from its    *)
(* entry to its response, extractTextFromPdf await by await, and the page  *)
(* of src/public/app.js.  Each specification runs one of them and keeps    *)
(* the others idle.                                                        *)
(***************************************************************************)
EXTENDS Integers, Sequences, FiniteSets, Bags, TLC

VARIABLES
    variant,     \* "token" (part_001) or "session" (part_002)
    userStore,   \* part_001: the Map holding users (by email) AND tokens
    dbUsers,     \* part_002: rows of the users table
    sessions,    \* part_002: session store, session id -> session.user
    pending,     \* part_002: signups between their lookup and their insert
    nextId,      \* number of crypto.randomUUID() values handed out
    nextCred,    \* number of tokens / session ids handed out
    issued,      \* history: credentials handed out by a successful signup/login
    revoked,     \* history: credentials whose holder completed a logout
    prevUsers,   \* history: the stored users before the last request
    loginFailures, \* history: the latest answer to each kind of failed login
    resp,        \* the last response, with the request that caused it
    reply,      \* the text the model answered with
    coerced,    \* what coerceModelJson returned inside that call
    summary,    \* what summarizeForReview returned
    fenced,     \* the same reply sent inside a code fence: the fence and what came back
    shown,      \* a result's summary as the page and the export coerce it
    sumPc,      \* "asked", "returned", then "fenced" or "rendered"; "idle" where no reply is modelled
    files,        \* req.files: the uploaded files in upload order
    reviewModel,  \* TRUE when a model client was built from the API key
    cursor,       \* how many files the for-of loop has been through
    results,      \* the handler's results array
    outcomes,     \* per file gone through: what happened to it and what the model answered
    invocations,  \* per file gone through: how often generateContent was called for it
    analyzeResp,  \* the response of the handler
    aPc,          \* "entered", "loop", "done"; "idle" where no upload is modelled
    parsers,      \* the PDFParse objects extractTextFromPdf built, the last one its current
    eResult,      \* what getText resolved with in the current extractTextFromPdf call
    eOut,         \* how the last extractTextFromPdf call ended: "returned" or "threw"
    ePc,          \* where extractTextFromPdf stands; "idle" where it is not modelled
    selected,       \* the page's `files`: the names of the files chosen for upload
    analyzeDisabled,\* analyzeBtn.disabled
    inFlight,       \* analyze() calls waiting for their fetch to settle
    statusText,     \* what setStatus showed last
    cPc             \* "open" while the page is modelled, else "idle"

authVars == <<variant, userStore, dbUsers, sessions, pending, nextId, nextCred,
              issued, revoked, prevUsers, loginFailures, resp>>

coerceVars == <<reply, coerced, summary, fenced, shown, sumPc>>

analyzeVars == <<files, reviewModel, cursor, results, outcomes, invocations, analyzeResp, aPc>>

extractVars == <<parsers, eResult, eOut, ePc>>

clientVars == <<selected, analyzeDisabled, inFlight, statusText, cPc>>

---------------------------------------------------------------------------
(* Bounds of the model *)

MaxUsers    == 2    \* users created in one behaviour
MaxCreds    == 2    \* tokens / session ids handed out in one behaviour
MaxInFlight == 2    \* signups of the session server in flight at once

---------------------------------------------------------------------------
(* Text helpers: String.prototype.trim / toLowerCase *)

Whitespace == {" ", "\n", "\t", "\r"}

Lowers == <<"a", "b", "c", "d", "e", "f", "g", "h", "i", "j", "k", "l", "m",
            "n", "o", "p", "q", "r", "s", "t", "u", "v", "w", "x", "y", "z">>

Uppers == <<"A", "B", "C", "D", "E", "F", "G", "H", "I", "J", "K", "L", "M",
            "N", "O", "P", "Q", "R", "S", "T", "U", "V", "W", "X", "Y", "Z">>

UpperCase == {Uppers[i] : i \in DOMAIN Uppers}

LowerCase == {Lowers[i] : i \in DOMAIN Lowers}

LowerChar(c) ==
    IF c \in UpperCase THEN Lowers[CHOOSE i \in DOMAIN Uppers : Uppers[i] = c] ELSE c

toLowerCase(s) == [i \in 1..Len(s) |-> LowerChar(s[i])]

RECURSIVE trimStart(_)
trimStart(s) ==
    IF s # <<>> /\ Head(s) \in Whitespace THEN trimStart(Tail(s)) ELSE s

RECURSIVE trimEnd(_)
trimEnd(s) ==
    IF s # <<>> /\ s[Len(s)] \in Whitespace
    THEN trimEnd(SubSeq(s, 1, Len(s) - 1))
    ELSE s

trim(s) == trimEnd(trimStart(s))

\* a plausible slip: lower-cases but forgets to trim
normalizeEmailNoTrim(email) == toLowerCase(email)

normalizeEmail(email) == toLowerCase(trim(email))

\* sha256 is modelled as an injective tagging of the password
hashPassword(password) == <<"sha256">> \o password

---------------------------------------------------------------------------
(* Inputs *)

MinPasswordLen == 6

Pw(n) == [i \in 1..n |-> "p"]

\* passwords offered at signup: missing, one character short, just long enough
SignupPasswords == {Pw(0), Pw(MinPasswordLen - 1), Pw(MinPasswordLen)}

\* passwords offered at login: the one signups use, and another one
LoginPasswords == {Pw(MinPasswordLen), Pw(MinPasswordLen + 1)}

\* emails as typed: missing, blank, plain, padded upper case
RawEmails == {<<>>, <<" ">>, <<"a">>, <<" ", "A", " ">>}

CredDigits == <<"1", "2", "3", "4", "5", "6", "7", "8", "9">>

\* the i-th value of crypto.randomBytes(32).toString('hex') / the i-th session id
Cred(i) == <<"#", CredDigits[i]>>

Creds == {Cred(i) : i \in 1..MaxCreds}

NoCred == <<"-">>

NoHash == <<"undefined">>

NoUser == [id |-> 0, name |-> "", email |-> <<>>, passwordHash |-> NoHash]

User(id, email, hash) == [id |-> id, name |-> "Guest", email |-> email, passwordHash |-> hash]

\* { id: user.id, name: user.name, email: user.email }
Identity(u) == [id |-> u.id, name |-> u.name, email |-> u.email, passwordHash |-> NoHash]

\* Authorization headers a caller can send to the token server (an HTTP header
\* value carries no trailing blank, so "Bearer " with an empty token cannot arrive)
Headers ==
    {[scheme |-> "none", value |-> <<>>], [scheme |-> "basic", value |-> <<"a">>]}
    \cup {[scheme |-> "bearer", value |-> v] :
            v \in Creds \cup ({normalizeEmail(e) : e \in RawEmails} \ {<<>>})}

SessionBound == {"analyze", "export"}

---------------------------------------------------------------------------
(* Route tables: the order in which each server registers its layers *)

TokenLayers ==
    <<"cors", "json", "static", "root", "app.html", "error.html", "health",
      "signup", "login", "logout", "analyze", "export", "error-mw", "not-found">>

SessionLayers ==
    <<"export", "cors", "json", "session", "root", "app", "app.html",
      "session-get", "signup", "login", "logout", "static", "error-mw",
      "not-found", "error-page", "health", "analyze", "multer-error">>

Layers == IF variant = "token" THEN TokenLayers ELSE SessionLayers

\* a layer ends the request when it is the route's handler or the catch-all
Terminal(layer, route) == layer = route \/ layer = "not-found"

HandlerIndex(route) ==
    CHOOSE i \in 1..Len(Layers) :
        /\ Terminal(Layers[i], route)
        /\ \A j \in 1..(i - 1) : ~Terminal(Layers[j], route)

Handler(route) == Layers[HandlerIndex(route)]

\* did layer `mw` run before the request reached its handler?
RanBefore(mw, route) ==
    \E i \in 1..(HandlerIndex(route) - 1) : Layers[i] = mw

---------------------------------------------------------------------------
(* Responses *)

Response(op, status, error) ==
    [op |-> op, status |-> status, error |-> error, admitted |-> FALSE,
     cred |-> NoCred, rawEmail |-> <<>>, password |-> <<>>,
     user |-> NoUser, newCred |-> NoCred, outcome |-> "", payload |-> ""]

NoResponse == Response("none", 0, "")

NotFoundRedirect(op) == Response(op, 302, "/error.html?type=404")

\* the redirect of the general error middleware
ErrorRedirect(op) == Response(op, 302, "/error.html?type=500")

\* the request came with a usable payload (files, results) or with none
WithPayload(r, payloadOk) == [r EXCEPT !.payload = IF payloadOk THEN "ok" ELSE "empty"]

\* what the caller sees of a response
Body(r) == [status |-> r.status, error |-> r.error]

NoBody == [status |-> 0, error |-> ""]

\* a plausible slip: an unknown email is answered differently from a wrong password
LoginFailureLeaky(known) ==
    IF known THEN Response("login", 401, "Invalid email or password.")
    ELSE Response("login", 404, "No account for this email.")

\* the answer of login when the user is missing or the hash differs
LoginFailure(known) == Response("login", 401, "Invalid email or password.")

---------------------------------------------------------------------------
(* Maps and the credential store *)

EmptyMap == [k \in {} |-> NoUser]

MapSet(m, k, v) == [x \in (DOMAIN m) \cup {k} |-> IF x = k THEN v ELSE m[x]]

MapDelete(m, k) == [x \in (DOMAIN m) \ {k} |-> m[x]]

\* the user records a server holds: the Map entries that carry a password
\* hash (part_001), the rows of the users table (part_002)
StoredUsers ==
    IF variant = "token"
    THEN {userStore[k] : k \in {x \in DOMAIN userStore : userStore[x].passwordHash # NoHash}}
    ELSE dbUsers

\* db.getUserByEmail: the row, or undefined
getUserByEmail(email) ==
    IF \E row \in dbUsers : row.email = email
    THEN CHOOSE row \in dbUsers : row.email = email
    ELSE NoUser

\* what the SQLite driver may put in err.code when the UNIQUE constraint fails
DriverCodes == {"SQLITE_CONSTRAINT", "SQLITE_CONSTRAINT_UNIQUE"}

\* db.createUser: INSERT under the table's UNIQUE(email) constraint
createUser(user, code) ==
    IF \E row \in dbUsers : row.email = user.email
    THEN [ok |-> FALSE, rows |-> dbUsers,
          message |-> IF code = "SQLITE_CONSTRAINT_UNIQUE"
                      THEN "Email already registered"
                      ELSE "SQLITE_CONSTRAINT: UNIQUE constraint failed: users.email"]
    ELSE [ok |-> TRUE, rows |-> dbUsers \cup {user}, message |-> ""]

---------------------------------------------------------------------------
(* part_001: the bearer-token server *)

InvalidSignup(rawEmail, password) ==
    rawEmail = <<>> \/ password = <<>> \/ Len(password) < MinPasswordLen

SignupRequest(r, rawEmail, password) ==
    [r EXCEPT !.rawEmail = rawEmail, !.password = password]

TokenSignup(rawEmail, password) ==
    /\ variant = "token"
    /\ Handler("signup") = "signup"
    /\ prevUsers' = StoredUsers
    /\ LET normalizedEmail == normalizeEmail(rawEmail)
           user  == User(nextId + 1, normalizedEmail, hashPassword(password))
           token == Cred(nextCred + 1)
       IN  IF InvalidSignup(rawEmail, password)
           THEN /\ resp' = SignupRequest(Response("signup", 400,
                              "Provide a valid email and a password with at least 6 characters."),
                              rawEmail, password)
                /\ UNCHANGED <<userStore, nextId, nextCred, issued>>
           ELSE IF normalizedEmail \in DOMAIN userStore
           THEN /\ resp' = [SignupRequest(Response("signup", 409,
                              "Email already registered. Please sign in."),
                              rawEmail, password) EXCEPT !.outcome = "conflict"]
                /\ UNCHANGED <<userStore, nextId, nextCred, issued>>
           ELSE /\ nextId < MaxUsers
                /\ nextCred < MaxCreds
                /\ userStore' = MapSet(MapSet(userStore, normalizedEmail, user),
                                       token, Identity(user))
                /\ nextId' = nextId + 1
                /\ nextCred' = nextCred + 1
                /\ issued' = issued \cup {token}
                /\ resp' = [SignupRequest(Response("signup", 200, ""), rawEmail, password)
                              EXCEPT !.user = Identity(user), !.newCred = token,
                                     !.outcome = "created"]
    /\ UNCHANGED <<variant, loginFailures, dbUsers, sessions, pending, revoked>>
    /\ UNCHANGED <<coerceVars, analyzeVars, extractVars, clientVars>>

TokenLogin(rawEmail, password) ==
    /\ variant = "token"
    /\ Handler("login") = "login"
    /\ prevUsers' = StoredUsers
    /\ LET normalizedEmail == normalizeEmail(rawEmail)
           known == normalizedEmail \in DOMAIN userStore
           user  == IF known THEN userStore[normalizedEmail] ELSE NoUser
           token == Cred(nextCred + 1)
       IN  IF ~known \/ user.passwordHash # hashPassword(password)
           THEN /\ loginFailures' = [loginFailures EXCEPT
                       ![IF known THEN "wrong-password" ELSE "unknown"] = Body(LoginFailure(known))]
                /\ resp' = [SignupRequest(LoginFailure(known), rawEmail, password)
                              EXCEPT !.outcome = IF known THEN "wrong-password" ELSE "unknown"]
                /\ UNCHANGED <<userStore, nextCred, issued>>
           ELSE /\ UNCHANGED loginFailures
                /\ nextCred < MaxCreds
                /\ userStore' = MapSet(userStore, token, Identity(user))
                /\ nextCred' = nextCred + 1
                /\ issued' = issued \cup {token}
                /\ resp' = [SignupRequest(Response("login", 200, ""), rawEmail, password)
                              EXCEPT !.user = Identity(user), !.newCred = token,
                                     !.outcome = "logged-in"]
    /\ UNCHANGED <<variant, dbUsers, sessions, pending, nextId, revoked>>
    /\ UNCHANGED <<coerceVars, analyzeVars, extractVars, clientVars>>

\* POST /sessions/logout answers { success: true } and touches nothing; the
\* client (app.js logout) then forgets the token it held
TokenLogout(cred) ==
    /\ variant = "token"
    /\ Handler("logout") = "logout"
    /\ prevUsers' = StoredUsers
    /\ resp' = [Response("logout", 200, "") EXCEPT !.cred = cred]
    /\ revoked' = IF cred = NoCred THEN revoked ELSE revoked \cup {cred}
    /\ UNCHANGED <<variant, loginFailures, userStore, dbUsers, sessions, pending, nextId, nextCred, issued>>
    /\ UNCHANGED <<coerceVars, analyzeVars, extractVars, clientVars>>

\* requireAuth of part_001
TokenRequireAuth(header) ==
    IF header.scheme # "bearer"
    THEN [ok |-> FALSE, error |-> "Authentication required"]
    ELSE IF header.value \notin DOMAIN userStore
    THEN [ok |-> FALSE, error |-> "Invalid token"]
    ELSE [ok |-> TRUE, error |-> ""]

EmptyPayloadError(route) ==
    IF route = "analyze" THEN "Please upload at least one PDF file."
    ELSE "No results provided for export."

\* the answer of a session-bound route once requireAuth let the request pass
Admitted(route, cred, payloadOk) ==
    [Response(route, IF payloadOk THEN 200 ELSE 400,
              IF payloadOk THEN "" ELSE EmptyPayloadError(route))
       EXCEPT !.admitted = TRUE, !.cred = cred]

TokenRequest(route, header, payloadOk) ==
    /\ variant = "token"
    /\ prevUsers' = StoredUsers
    /\ LET cred == IF header.scheme = "bearer" THEN header.value ELSE NoCred
           auth == TokenRequireAuth(header)
       IN  resp' = WithPayload(
                     IF Handler(route) = "not-found" THEN NotFoundRedirect(route)
                     ELSE IF ~auth.ok
                     THEN [Response(route, 401, auth.error)
                             EXCEPT !.cred = cred, !.outcome = header.scheme]
                     ELSE Admitted(route, cred, payloadOk),
                     payloadOk)
    /\ UNCHANGED <<variant, loginFailures, userStore, dbUsers, sessions, pending, nextId, nextCred,
                   issued, revoked>>
    /\ UNCHANGED <<coerceVars, analyzeVars, extractVars, clientVars>>

---------------------------------------------------------------------------
(* part_002: the cookie-session server *)

\* express-session: the session a request works on is the stored one its
\* cookie names, else a fresh one that is stored once the handler sets user
LiveSid(sidIn) == IF sidIn \in DOMAIN sessions THEN sidIn ELSE NoCred

\* requireAuth of part_002: req.session?.user
SessionRequireAuth(route, sidIn) ==
    RanBefore("session", route) /\ sidIn \in DOMAIN sessions

\* POST /sessions/signup up to and including `await db.getUserByEmail`
SessionSignup(sidIn, rawEmail, password) ==
    /\ variant = "session"
    /\ Handler("signup") = "signup"
    /\ LET normalizedEmail == normalizeEmail(rawEmail)
           existingUser == getUserByEmail(normalizedEmail)
       IN  IF InvalidSignup(rawEmail, password)
           THEN /\ resp' = SignupRequest(Response("signup", 400,
                              "Provide a valid email and a password with at least 6 characters."),
                              rawEmail, password)
                /\ prevUsers' = StoredUsers
                /\ UNCHANGED pending
           ELSE IF existingUser # NoUser
           THEN /\ resp' = [SignupRequest(Response("signup", 409,
                              "Email already registered. Please sign in."),
                              rawEmail, password) EXCEPT !.outcome = "conflict"]
                /\ prevUsers' = StoredUsers
                /\ UNCHANGED pending
           ELSE /\ BagCardinality(pending) < MaxInFlight
                /\ pending' = pending (+) SetToBag({[rawEmail |-> rawEmail,
                                    email |-> normalizedEmail, password |-> password,
                                    sid |-> LiveSid(sidIn)]})
                /\ UNCHANGED <<resp, prevUsers>>
    /\ UNCHANGED <<variant, loginFailures, userStore, dbUsers, sessions, nextId, nextCred, issued, revoked>>
    /\ UNCHANGED <<coerceVars, analyzeVars, extractVars, clientVars>>

\* POST /sessions/signup from `await db.createUser` to the response
SessionSignupInsert(req, code) ==
    /\ variant = "session"
    /\ BagIn(req, pending)
    /\ prevUsers' = StoredUsers
    /\ pending' = pending (-) SetToBag({req})
    /\ LET user == User(nextId + 1, req.email, hashPassword(req.password))
           created == createUser(user, code)
           sid  == IF req.sid = NoCred THEN Cred(nextCred + 1) ELSE req.sid
       IN  IF created.ok
           THEN /\ nextId < MaxUsers
                /\ req.sid = NoCred => nextCred < MaxCreds
                /\ dbUsers' = created.rows
                /\ sessions' = MapSet(sessions, sid, Identity(user))
                /\ nextId' = nextId + 1
                /\ nextCred' = IF req.sid = NoCred THEN nextCred + 1 ELSE nextCred
                /\ issued' = issued \cup {sid}
                /\ revoked' = revoked \ {sid}
                /\ resp' = [SignupRequest(Response("signup", 200, ""), req.rawEmail, req.password)
                              EXCEPT !.user = Identity(user), !.newCred = sid,
                                     !.cred = req.sid, !.outcome = "created"]
           ELSE /\ resp' = [SignupRequest(
                              IF created.message = "Email already registered"
                              THEN Response("signup", 409, "Email already registered. Please sign in.")
                              ELSE Response("signup", 500, "Failed to create account. Please try again."),
                              req.rawEmail, req.password)
                              EXCEPT !.cred = req.sid, !.outcome = "conflict"]
                /\ UNCHANGED <<dbUsers, sessions, nextId, nextCred, issued, revoked>>
    /\ UNCHANGED <<variant, loginFailures, userStore>>
    /\ UNCHANGED <<coerceVars, analyzeVars, extractVars, clientVars>>

SessionLogin(sidIn, rawEmail, password) ==
    /\ variant = "session"
    /\ Handler("login") = "login"
    /\ prevUsers' = StoredUsers
    /\ LET normalizedEmail == normalizeEmail(rawEmail)
           user  == getUserByEmail(normalizedEmail)
           known == user # NoUser
           sid   == IF LiveSid(sidIn) = NoCred THEN Cred(nextCred + 1) ELSE sidIn
       IN  IF ~known \/ user.passwordHash # hashPassword(password)
           THEN /\ loginFailures' = [loginFailures EXCEPT
                       ![IF known THEN "wrong-password" ELSE "unknown"] = Body(LoginFailure(known))]
                /\ resp' = [SignupRequest(LoginFailure(known), rawEmail, password)
                              EXCEPT !.cred = sidIn,
                                     !.outcome = IF known THEN "wrong-password" ELSE "unknown"]
                /\ UNCHANGED <<sessions, nextCred, issued, revoked>>
           ELSE /\ UNCHANGED loginFailures
                /\ LiveSid(sidIn) = NoCred => nextCred < MaxCreds
                /\ sessions' = MapSet(sessions, sid, Identity(user))
                /\ nextCred' = IF LiveSid(sidIn) = NoCred THEN nextCred + 1 ELSE nextCred
                /\ issued' = issued \cup {sid}
                /\ revoked' = revoked \ {sid}
                /\ resp' = [SignupRequest(Response("login", 200, ""), rawEmail, password)
                              EXCEPT !.user = Identity(user), !.newCred = sid,
                                     !.cred = sidIn, !.outcome = "logged-in"]
    /\ UNCHANGED <<variant, userStore, dbUsers, pending, nextId>>
    /\ UNCHANGED <<coerceVars, analyzeVars, extractVars, clientVars>>

\* POST /sessions/logout: requireAuth, then req.session.destroy
SessionLogout(sidIn) ==
    /\ variant = "session"
    /\ Handler("logout") = "logout"
    /\ prevUsers' = StoredUsers
    /\ IF SessionRequireAuth("logout", sidIn)
       THEN /\ sessions' = MapDelete(sessions, sidIn)
            /\ revoked' = revoked \cup {sidIn}
            /\ resp' = [Response("logout", 200, "") EXCEPT !.cred = sidIn]
       ELSE /\ resp' = [Response("logout", 401, "Authentication required") EXCEPT !.cred = sidIn]
            /\ UNCHANGED <<sessions, revoked>>
    /\ UNCHANGED <<variant, loginFailures, userStore, dbUsers, pending, nextId, nextCred, issued>>
    /\ UNCHANGED <<coerceVars, analyzeVars, extractVars, clientVars>>

SessionRequest(route, sidIn, payloadOk) ==
    /\ variant = "session"
    /\ prevUsers' = StoredUsers
    /\ resp' = WithPayload(
                 IF Handler(route) = "not-found" THEN [NotFoundRedirect(route) EXCEPT !.cred = sidIn]
                 ELSE IF ~SessionRequireAuth(route, sidIn)
                 THEN [Response(route, 401, "Authentication required") EXCEPT !.cred = sidIn]
                 ELSE Admitted(route, sidIn, payloadOk),
                 payloadOk)
    /\ UNCHANGED <<variant, loginFailures, userStore, dbUsers, sessions, pending, nextId, nextCred,
                   issued, revoked>>
    /\ UNCHANGED <<coerceVars, analyzeVars, extractVars, clientVars>>

---------------------------------------------------------------------------
(* Uploads the upload parser refuses: upload.array('papers', 5) calls next(err) *)
(* with a MulterError, and the first error middleware registered after the     *)
(* route answers.                                                               *)

\* a part over 20MB, more than 5 parts, a part that is not a PDF
MulterCodes == {"LIMIT_FILE_SIZE", "LIMIT_FILE_COUNT", "LIMIT_UNEXPECTED_FILE"}

ErrorLayers == {"error-mw", "multer-error"}

\* the first error middleware after the route, "default" when there is none
ErrorHandlerAfter(route) ==
    LET later == {i \in (HandlerIndex(route) + 1)..Len(Layers) : Layers[i] \in ErrorLayers}
    IN  IF later = {} THEN "default"
        ELSE Layers[CHOOSE i \in later : \A j \in later : i <= j]

MulterMessage(code) ==
    IF code = "LIMIT_FILE_SIZE" THEN "Each PDF must be 20MB or smaller."
    ELSE "Only PDF uploads are supported."

\* the answer to an upload the parser refused with `code`
UploadError(route, cred, code) ==
    LET h == ErrorHandlerAfter(route)
        r == IF h = "multer-error" THEN Response(route, 400, MulterMessage(code))
             ELSE IF h = "error-mw" THEN ErrorRedirect(route)
             ELSE Response(route, 500, "")
    IN  [r EXCEPT !.admitted = TRUE, !.cred = cred, !.payload = code]

TokenUpload(header, code) ==
    /\ variant = "token"
    /\ prevUsers' = StoredUsers
    /\ LET cred == IF header.scheme = "bearer" THEN header.value ELSE NoCred
           auth == TokenRequireAuth(header)
       IN  resp' = IF Handler("analyze") = "not-found"
                   THEN [NotFoundRedirect("analyze") EXCEPT !.cred = cred, !.payload = code]
                   ELSE IF ~auth.ok
                   THEN [Response("analyze", 401, auth.error)
                           EXCEPT !.cred = cred, !.outcome = header.scheme, !.payload = code]
                   ELSE UploadError("analyze", cred, code)
    /\ UNCHANGED <<variant, loginFailures, userStore, dbUsers, sessions, pending, nextId, nextCred,
                   issued, revoked>>
    /\ UNCHANGED <<coerceVars, analyzeVars, extractVars, clientVars>>

SessionUpload(sidIn, code) ==
    /\ variant = "session"
    /\ prevUsers' = StoredUsers
    /\ resp' = IF Handler("analyze") = "not-found"
               THEN [NotFoundRedirect("analyze") EXCEPT !.cred = sidIn, !.payload = code]
               ELSE IF ~SessionRequireAuth("analyze", sidIn)
               THEN [Response("analyze", 401, "Authentication required")
                       EXCEPT !.cred = sidIn, !.payload = code]
               ELSE UploadError("analyze", sidIn, code)
    /\ UNCHANGED <<variant, loginFailures, userStore, dbUsers, sessions, pending, nextId, nextCred,
                   issued, revoked>>
    /\ UNCHANGED <<coerceVars, analyzeVars, extractVars, clientVars>>

\* GET /session
SessionGet(sidIn) ==
    /\ variant = "session"
    /\ prevUsers' = StoredUsers
    /\ resp' = IF Handler("session-get") = "not-found"
               THEN [NotFoundRedirect("session-get") EXCEPT !.cred = sidIn]
               ELSE IF RanBefore("session", "session-get") /\ sidIn \in DOMAIN sessions
               THEN [Response("session-get", 200, "")
                       EXCEPT !.cred = sidIn, !.admitted = TRUE, !.user = sessions[sidIn]]
               ELSE [Response("session-get", 401, "Not authenticated") EXCEPT !.cred = sidIn]
    /\ UNCHANGED <<variant, loginFailures, userStore, dbUsers, sessions, pending, nextId, nextCred,
                   issued, revoked>>
    /\ UNCHANGED <<coerceVars, analyzeVars, extractVars, clientVars>>

---------------------------------------------------------------------------
(* Routes of both servers that ask for no session *)

\* GET /health
GetHealth ==
    /\ prevUsers' = StoredUsers
    /\ resp' = IF Handler("health") = "not-found" THEN NotFoundRedirect("health")
               ELSE Response("health", 200, "")
    /\ UNCHANGED <<variant, loginFailures, userStore, dbUsers, sessions, pending, nextId, nextCred,
                   issued, revoked>>
    /\ UNCHANGED <<coerceVars, analyzeVars, extractVars, clientVars>>

---------------------------------------------------------------------------
(* The session gate as a state machine *)

AuthInit ==
    /\ variant \in {"token", "session"}
    /\ userStore = EmptyMap
    /\ dbUsers = {}
    /\ sessions = EmptyMap
    /\ pending = EmptyBag
    /\ nextId = 0
    /\ nextCred = 0
    /\ issued = {}
    /\ revoked = {}
    /\ prevUsers = {}
    /\ loginFailures = [k \in {"unknown", "wrong-password"} |-> NoBody]
    /\ resp = NoResponse

\* the sign-up and sign-in forms are served to callers without a session
\* ("/" redirects a signed-in caller to the app), so these arrive without cookie
TokenNext ==
    \/ \E e \in RawEmails, p \in SignupPasswords : TokenSignup(e, p)
    \/ \E e \in RawEmails, p \in LoginPasswords : TokenLogin(e, p)
    \/ \E c \in issued \cup {NoCred} : TokenLogout(c)
    \/ \E r \in SessionBound, h \in Headers, ok \in BOOLEAN : TokenRequest(r, h, ok)
    \/ \E h \in Headers, code \in MulterCodes : TokenUpload(h, code)
    \/ GetHealth

SessionNext ==
    \/ \E e \in RawEmails, p \in SignupPasswords : SessionSignup(NoCred, e, p)
    \/ \E req \in BagToSet(pending), code \in DriverCodes : SessionSignupInsert(req, code)
    \/ \E e \in RawEmails, p \in LoginPasswords : SessionLogin(NoCred, e, p)
    \/ \E c \in Creds \cup {NoCred} : SessionLogout(c)
    \/ \E r \in SessionBound, c \in Creds \cup {NoCred}, ok \in BOOLEAN : SessionRequest(r, c, ok)
    \/ \E c \in Creds \cup {NoCred}, code \in MulterCodes : SessionUpload(c, code)
    \/ \E c \in Creds \cup {NoCred} : SessionGet(c)
    \/ GetHealth

AuthNext == TokenNext \/ SessionNext

\* the routes that create, open and close accounts and sessions, of either server
AccountNext ==
    \/ \E e \in RawEmails, p \in SignupPasswords : TokenSignup(e, p)
    \/ \E e \in RawEmails, p \in LoginPasswords : TokenLogin(e, p)
    \/ \E c \in issued \cup {NoCred} : TokenLogout(c)
    \/ \E e \in RawEmails, p \in SignupPasswords : SessionSignup(NoCred, e, p)
    \/ \E req \in BagToSet(pending), code \in DriverCodes : SessionSignupInsert(req, code)
    \/ \E e \in RawEmails, p \in LoginPasswords : SessionLogin(NoCred, e, p)
    \/ \E c \in Creds \cup {NoCred} : SessionLogout(c)

---------------------------------------------------------------------------
(* JSON.parse, computed on the characters of a text.  Texts of the model hold *)
(* no backslash, so string escapes do not arise.                            *)

Digits == {"0", "1", "2", "3", "4", "5", "6", "7", "8", "9"}

ControlChars == {"\n", "\t", "\r"}

\* a JavaScript value as JSON.parse builds it; every value has the same four
\* fields so that any two values can be compared
JValue(kind, text, keys, items) ==
    [kind |-> kind, text |-> text, keys |-> keys, items |-> items]

JNull == JValue("null", <<>>, <<>>, <<>>)

JString(text) == JValue("string", text, <<>>, <<>>)

JArray(items) == JValue("array", <<>>, <<>>, items)

JObject(keys, items) == JValue("object", <<>>, keys, items)

Failed == [ok |-> FALSE, next |-> 0, val |-> JNull]

Parsed(val, next) == [ok |-> TRUE, next |-> next, val |-> val]

At(s, i) == IF i \in 1..Len(s) THEN s[i] ELSE "EOF"

\* the first position from i on whose character is not in class
SkipWhile(s, i, class) ==
    CHOOSE j \in i..(Len(s) + 1) :
        /\ \A k \in i..(j - 1) : s[k] \in class
        /\ j = Len(s) + 1 \/ s[j] \notin class

SkipWs(s, i) == SkipWhile(s, i, Whitespace)

StartsWithAt(s, i, word) ==
    /\ i + Len(word) - 1 <= Len(s)
    /\ SubSeq(s, i, i + Len(word) - 1) = word

ParseString(s, i) ==
    LET closes == {k \in (i + 1)..Len(s) : s[k] = "\""}
        j == CHOOSE k \in closes : \A m \in closes : k <= m
    IN  IF closes = {} THEN Failed
        ELSE IF \E k \in (i + 1)..(j - 1) : s[k] \in ControlChars THEN Failed
        ELSE Parsed(JString(SubSeq(s, i + 1, j - 1)), j + 1)

ParseNumber(s, i) ==
    LET a        == IF At(s, i) = "-" THEN i + 1 ELSE i
        intEnd   == IF At(s, a) = "0" THEN a + 1 ELSE SkipWhile(s, a, Digits)
        hasFrac  == At(s, intEnd) = "."
        fracEnd  == IF hasFrac THEN SkipWhile(s, intEnd + 1, Digits) ELSE intEnd
        hasExp   == At(s, fracEnd) \in {"e", "E"}
        expStart == IF At(s, fracEnd + 1) \in {"+", "-"} THEN fracEnd + 2 ELSE fracEnd + 1
        end      == IF hasExp THEN SkipWhile(s, expStart, Digits) ELSE fracEnd
    IN  IF At(s, a) \notin Digits THEN Failed
        ELSE IF hasFrac /\ fracEnd = intEnd + 1 THEN Failed
        ELSE IF hasExp /\ end = expStart THEN Failed
        ELSE Parsed(JValue("number", SubSeq(s, i, end - 1), <<>>, <<>>), end)

ParseLiteral(s, i, word) ==
    IF StartsWithAt(s, i, word)
    THEN Parsed(JValue(IF word = <<"n", "u", "l", "l">> THEN "null" ELSE "boolean",
                       IF word = <<"n", "u", "l", "l">> THEN <<>> ELSE word, <<>>, <<>>),
                i + Len(word))
    ELSE Failed

\* obj[key] = value: a repeated key keeps its place and takes the last value
PutMember(keys, items, key, val) ==
    IF \E p \in 1..Len(keys) : keys[p] = key
    THEN [keys |-> keys,
          items |-> [items EXCEPT ![CHOOSE p \in 1..Len(keys) : keys[p] = key] = val]]
    ELSE [keys |-> Append(keys, key), items |-> Append(items, val)]

RECURSIVE ParseValue(_, _)
RECURSIVE ParseElements(_, _, _)
RECURSIVE ParseMembers(_, _, _, _)

\* the elements of an array from position i, which starts an element
ParseElements(s, i, acc) ==
    LET v == ParseValue(s, i)
        j == SkipWs(s, v.next)
    IN  IF ~v.ok THEN Failed
        ELSE IF At(s, j) = "," THEN ParseElements(s, SkipWs(s, j + 1), Append(acc, v.val))
        ELSE IF At(s, j) = "]" THEN Parsed(JArray(Append(acc, v.val)), j + 1)
        ELSE Failed

\* the members of an object from position i, which starts a key
ParseMembers(s, i, keys, items) ==
    LET k   == ParseString(s, i)
        c   == SkipWs(s, k.next)
        v   == ParseValue(s, SkipWs(s, c + 1))
        j   == SkipWs(s, v.next)
        put == PutMember(keys, items, k.val.text, v.val)
    IN  IF At(s, i) # "\"" THEN Failed
        ELSE IF ~k.ok THEN Failed
        ELSE IF At(s, c) # ":" THEN Failed
        ELSE IF ~v.ok THEN Failed
        ELSE IF At(s, j) = "," THEN ParseMembers(s, SkipWs(s, j + 1), put.keys, put.items)
        ELSE IF At(s, j) = "}" THEN Parsed(JObject(put.keys, put.items), j + 1)
        ELSE Failed

\* the value that starts at position i (no whitespace before it)
ParseValue(s, i) ==
    LET c == At(s, i)
    IN  CASE c = "{" ->
               LET j == SkipWs(s, i + 1)
               IN  IF At(s, j) = "}" THEN Parsed(JObject(<<>>, <<>>), j + 1)
                   ELSE ParseMembers(s, j, <<>>, <<>>)
          [] c = "[" ->
               LET j == SkipWs(s, i + 1)
               IN  IF At(s, j) = "]" THEN Parsed(JArray(<<>>), j + 1)
                   ELSE ParseElements(s, j, <<>>)
          [] c = "\"" -> ParseString(s, i)
          [] c = "t" -> ParseLiteral(s, i, <<"t", "r", "u", "e">>)
          [] c = "f" -> ParseLiteral(s, i, <<"f", "a", "l", "s", "e">>)
          [] c = "n" -> ParseLiteral(s, i, <<"n", "u", "l", "l">>)
          [] c = "-" \/ c \in Digits -> ParseNumber(s, i)
          [] OTHER -> Failed

\* JSON.parse(text): ok is FALSE where JSON.parse throws
JSONparse(text) ==
    LET v == ParseValue(text, SkipWs(text, 1))
    IN  IF v.ok /\ SkipWs(text, v.next) = Len(text) + 1
        THEN [ok |-> TRUE, val |-> v.val]
        ELSE [ok |-> FALSE, val |-> JNull]

\* the digits of a number before its exponent
Mantissa(text) ==
    SubSeq(text, 1, SkipWhile(text, 1, Digits \cup {"-", "."}) - 1)

\* JavaScript truthiness of a parsed value: `if (parsed)`
Truthy(v) ==
    CASE v.kind \in {"object", "array"} -> TRUE
      [] v.kind = "string"  -> v.text # <<>>
      [] v.kind = "number"  -> \E k \in 1..Len(Mantissa(v.text)) :
                                   Mantissa(v.text)[k] \in Digits \ {"0"}
      [] v.kind = "boolean" -> v.text = <<"t", "r", "u", "e">>
      [] OTHER -> FALSE

---------------------------------------------------------------------------
(* Response coercion: coerceModelJson and its helpers *)

\* the characters normalizeQuotes rewrites, named by code point
SmartSingle == {"U+2018", "U+2019", "U+201A", "U+201B", "U+2032", "U+2035"}

SmartDouble == {"U+201C", "U+201D", "U+201E", "U+201F", "U+2033", "U+2036"}

\* three backquotes (U+0060)
Fence == <<"U+0060", "U+0060", "U+0060">>

AlphaNum == LowerCase \cup UpperCase \cup Digits

stripCodeFences(text) ==
    LET t1 == trim(text)
        t2 == IF StartsWithAt(t1, 1, Fence)
              THEN SubSeq(t1, SkipWhile(t1, SkipWhile(t1, 4, AlphaNum), Whitespace), Len(t1))
              ELSE t1
        t3 == IF Len(t2) >= 3 /\ SubSeq(t2, Len(t2) - 2, Len(t2)) = Fence
              THEN SubSeq(t2, 1, Len(t2) - 3)
              ELSE t2
    IN  trim(t3)

stripJsonPrefix(text) ==
    LET t == IF Len(text) >= 4 /\ toLowerCase(SubSeq(text, 1, 4)) = <<"j", "s", "o", "n">>
             THEN SubSeq(text, SkipWhile(text, 5, Whitespace), Len(text))
             ELSE text
    IN  trim(t)

\* a candidate text, or null
Some(text) == [some |-> TRUE, text |-> text]

None == [some |-> FALSE, text |-> <<>>]

extractJsonBlock(text) ==
    LET opens  == {k \in 1..Len(text) : text[k] = "{"}
        closes == {k \in 1..Len(text) : text[k] = "}"}
        start  == CHOOSE k \in opens : \A m \in opens : k <= m
        end    == CHOOSE k \in closes : \A m \in closes : k >= m
    IN  IF opens = {} \/ closes = {} THEN None
        ELSE IF end <= start THEN None
        ELSE Some(SubSeq(text, start, end))

normalizeQuotes(text) ==
    [i \in 1..Len(text) |->
        IF text[i] \in SmartSingle THEN "'"
        ELSE IF text[i] \in SmartDouble THEN "\""
        ELSE text[i]]

\* the candidates with the brace blocks tried before the whole texts
CandidatesBlocksFirst(raw) ==
    LET cleaned       == stripCodeFences(raw)
        normalized    == normalizeQuotes(cleaned)
        withoutPrefix == stripJsonPrefix(normalized)
    IN  <<extractJsonBlock(normalized), extractJsonBlock(withoutPrefix),
          Some(normalized), Some(withoutPrefix)>>

\* the four candidates, in the order coerceModelJson tries them
Candidates(raw) ==
    LET cleaned       == stripCodeFences(raw)
        normalized    == normalizeQuotes(cleaned)
        withoutPrefix == stripJsonPrefix(normalized)
    IN  <<Some(normalized), Some(withoutPrefix),
          extractJsonBlock(normalized), extractJsonBlock(withoutPrefix)>>

RECURSIVE TryCandidates(_, _)
TryCandidates(candidates, k) ==
    IF k > Len(candidates) THEN JNull
    ELSE IF ~candidates[k].some \/ candidates[k].text = <<>>
    THEN TryCandidates(candidates, k + 1)
    ELSE IF JSONparse(candidates[k].text).ok
    THEN JSONparse(candidates[k].text).val
    ELSE TryCandidates(candidates, k + 1)

\* coerceModelJson: the first candidate that parses, else null
coerceModelJson(raw) ==
    IF raw = <<>> THEN JNull ELSE TryCandidates(Candidates(raw), 1)

---------------------------------------------------------------------------
(* The summaries summarizeForReview builds itself *)

KeyWarning ==
    <<"w", "a", "r", "n", "i", "n", "g">>

WarningText ==
    <<"G", "e", "m", "i", "n", "i", " ", "A", "P", "I", " ", "k", "e", "y", " ", "i", "s", " ",
      "n", "o", "t", " ", "c", "o", "n", "f", "i", "g", "u", "r", "e", "d", ".", " ", "N", "o",
      " ", "s", "u", "m", "m", "a", "r", "y", " ", "a", "v", "a", "i", "l", "a", "b", "l", "e",
      ".">>

KeyUnparsedSummary ==
    <<"u", "n", "p", "a", "r", "s", "e", "d", "_", "s", "u", "m", "m", "a", "r", "y">>

KeyParsingNote ==
    <<"p", "a", "r", "s", "i", "n", "g", "_", "n", "o", "t", "e">>

ParsingNote ==
    <<"M", "o", "d", "e", "l", " ", "r", "e", "t", "u", "r", "n", "e", "d", " ", "n", "o", "n",
      "-", "J", "S", "O", "N", " ", "t", "e", "x", "t", ";", " ", "i", "n", "c", "l", "u", "d",
      "e", "d", " ", "r", "a", "w", " ", "r", "e", "s", "p", "o", "n", "s", "e", " ", "i", "n",
      "s", "t", "e", "a", "d", ".">>

\* the summary returned when no model is configured
WarningSummary == JObject(<<KeyWarning>>, <<JString(WarningText)>>)

\* the summary returned when the reply did not coerce
UnparsedSummary(raw) ==
    JObject(<<KeyUnparsedSummary, KeyParsingNote>>, <<JString(raw), JString(ParsingNote)>>)

\* summarizeForReview once the model has answered
summarizeReply(answer) ==
    LET raw    == trim(answer)
        parsed == coerceModelJson(raw)
    IN  IF Truthy(parsed) THEN parsed ELSE UnparsedSummary(raw)

---------------------------------------------------------------------------
(* The SummaryObject schema *)

KeyConciseSummary ==
    <<"c", "o", "n", "c", "i", "s", "e", "_", "s", "u", "m", "m", "a", "r", "y">>

KeyKeyPoints ==
    <<"k", "e", "y", "_", "p", "o", "i", "n", "t", "s">>

KeyNovelty ==
    <<"n", "o", "v", "e", "l", "t", "y">>

KeyLimitations ==
    <<"l", "i", "m", "i", "t", "a", "t", "i", "o", "n", "s">>

KeyNextQuestions ==
    <<"n", "e", "x", "t", "_", "q", "u", "e", "s", "t", "i", "o", "n", "s">>

---------------------------------------------------------------------------
(* Replies the model may give, as their characters *)

Quoted(open, text, close) == <<open>> \o text \o <<close>>

\* the object the prompt asks for, with the given quotes around the first
\* member and the given texts as summary and novelty
SchemaReply(open, close, summaryText, noveltyText) ==
    <<"{">> \o Quoted(open, KeyConciseSummary, close) \o <<":">> \o Quoted(open, summaryText, close)
        \o <<",">> \o Quoted("\"", KeyKeyPoints, "\"") \o <<":", "[", "\"", "a", "\"", "]">>
        \o <<",">> \o Quoted("\"", KeyNovelty, "\"") \o <<":">> \o Quoted("\"", noveltyText, "\"")
        \o <<",">> \o Quoted("\"", KeyLimitations, "\"") \o <<":", "\"", "l", "\"">>
        \o <<",">> \o Quoted("\"", KeyNextQuestions, "\"") \o <<":", "[", "\"", "q", "\"", "]", "}">>

ReplySchemaObject == SchemaReply("\"", "\"", <<"x">>, <<"n">>)

\* a bare JSON number
ReplyNumber == <<"5">>

\* text without braces
ReplyProse ==
    <<"T", "h", "e", " ", "p", "a", "p", "e", "r", " ", "d", "i", "s", "c", "u", "s", "s", "e",
      "s">>

ReplyBodies ==
    {ReplySchemaObject, ReplyNumber, ReplyProse,
     \* valid JSON whose summary holds a typographic apostrophe
     SchemaReply("\"", "\"", <<"x", "U+2019", "s">>, <<"n">>),
     \* valid JSON whose novelty holds a word in typographic double quotes
     SchemaReply("\"", "\"", <<"x">>, <<"U+201C", "n", "U+201D">>),
     \* typographic quotes used as JSON delimiters
     SchemaReply("U+201C", "U+201D", <<"x">>, <<"n">>),
     \* an object that is not the schema, the empty object, JSON cut short
     <<"{", "\"", "a", "\"", ":", "1", "}">>,
     <<"{", "}">>,
     <<"{", "\"", "a", "\"", ":", "1">>,
     \* braces that hold no JSON
     <<"{", "o", "o", "p", "s", "}">>,
     \* bare scalars: 0, true, false, null, a string, the empty string
     <<"0">>,
     <<"t", "r", "u", "e">>,
     <<"f", "a", "l", "s", "e">>,
     <<"n", "u", "l", "l">>,
     <<"\"", "h", "i", "\"">>,
     <<"\"", "\"">>,
     \* a string whose text is itself JSON
     <<"\"", "n", "u", "l", "l", "\"">>,
     \* an array, an array that holds an object
     <<"[", "\"", "a", "\"", "]">>,
     <<"[", "{", "\"", "a", "\"", ":", "1", "}", "]">>,
     \* no text at all
     <<>>}

\* what may surround the body: nothing, a code fence with or without language
\* tag, a "json" label, blanks, prose
Wraps ==
    {[pre |-> <<>>,
      post |-> <<>>],
     [pre |-> <<"U+0060", "U+0060", "U+0060", "j", "s", "o", "n", "\n">>,
      post |-> <<"\n", "U+0060", "U+0060", "U+0060">>],
     [pre |-> <<"U+0060", "U+0060", "U+0060", "\n">>,
      post |-> <<"\n", "U+0060", "U+0060", "U+0060">>],
     [pre |-> <<"j", "s", "o", "n", " ">>,
      post |-> <<>>],
     [pre |-> <<"J", "S", "O", "N", "\n">>,
      post |-> <<>>],
     [pre |-> <<" ">>,
      post |-> <<"\n">>],
     [pre |-> <<"S", "u", "r", "e", ":", " ">>,
      post |-> <<" ", "D", "o", "n", "e", ".">>]}

Replies == {w.pre \o b \o w.post : w \in Wraps, b \in ReplyBodies}

---------------------------------------------------------------------------
(* The summarization step as a state machine *)

\* the code fences a reply may be wrapped in: with a language tag, without,
\* and without line breaks
FenceForms ==
    {[pre |-> Fence \o <<"j", "s", "o", "n", "\n">>, post |-> <<"\n">> \o Fence],
     [pre |-> Fence \o <<"\n">>, post |-> <<"\n">> \o Fence],
     [pre |-> Fence, post |-> Fence]}

Fenced(form, text) == form.pre \o text \o form.post

NoFence == [form |-> [pre |-> <<>>, post |-> <<>>], coerced |-> JNull, summary |-> JNull]

\* coerceSummary of the page: {} for a falsy summary, an object as it is, a
\* string parsed or wrapped, {} for anything else
coerceSummary(v) ==
    IF ~Truthy(v) THEN JObject(<<>>, <<>>)
    ELSE IF v.kind \in {"object", "array"} THEN v
    ELSE IF v.kind = "string"
    THEN IF JSONparse(v.text).ok
         THEN JSONparse(v.text).val
         ELSE JObject(<<KeyUnparsedSummary>>, <<v>>)
    ELSE JObject(<<>>, <<>>)

\* ensureSummaryObject of the export: {} for a falsy summary, an object as it
\* is, otherwise JSON.parse of the value's text, {} when that throws
ensureSummaryObject(v) ==
    IF ~Truthy(v) THEN JObject(<<>>, <<>>)
    ELSE IF v.kind \in {"object", "array"} THEN v
    ELSE IF JSONparse(v.text).ok
    THEN JSONparse(v.text).val
    ELSE JObject(<<>>, <<>>)

\* nothing rendered or exported yet
NotShown ==
    [given |-> JNull, display |-> JObject(<<>>, <<>>), export |-> JObject(<<>>, <<>>)]

CoerceInit ==
    /\ reply \in Replies
    /\ coerced = JNull
    /\ summary = JNull
    /\ fenced = NoFence
    /\ shown = NotShown
    /\ sumPc = "asked"

CoerceIdle ==
    /\ reply = <<>>
    /\ coerced = JNull
    /\ summary = JNull
    /\ fenced = NoFence
    /\ shown = NotShown
    /\ sumPc = "idle"

\* summarizeForReview from the model's reply to the return
SummarizeReturn ==
    /\ sumPc = "asked"
    /\ coerced' = coerceModelJson(trim(reply))
    /\ summary' = summarizeReply(reply)
    /\ sumPc' = "returned"
    /\ UNCHANGED <<reply, fenced, shown>>
    /\ UNCHANGED <<authVars, analyzeVars, extractVars, clientVars>>

\* summarizeForReview again, the model answering with the same reply in a fence
SummarizeFenced(form) ==
    /\ sumPc = "returned"
    /\ fenced' = [form    |-> form,
                  coerced |-> coerceModelJson(trim(Fenced(form, reply))),
                  summary |-> summarizeReply(Fenced(form, reply))]
    /\ sumPc' = "fenced"
    /\ UNCHANGED <<reply, coerced, summary, shown>>
    /\ UNCHANGED <<authVars, analyzeVars, extractVars, clientVars>>

\* the summary reaches the page (renderResults) and the export; a failed result
\* carries no summary at all
RenderSummary(absent) ==
    /\ sumPc = "returned"
    /\ LET given == IF absent THEN JValue("undefined", <<>>, <<>>, <<>>) ELSE summary
       IN  shown' = [given   |-> given,
                     display |-> coerceSummary(given),
                     export  |-> ensureSummaryObject(given)]
    /\ sumPc' = "rendered"
    /\ UNCHANGED <<reply, coerced, summary, fenced>>
    /\ UNCHANGED <<authVars, analyzeVars, extractVars, clientVars>>

CoerceNext ==
    \/ SummarizeReturn
    \/ \E form \in FenceForms : SummarizeFenced(form)
    \/ \E absent \in BOOLEAN : RenderSummary(absent)

---------------------------------------------------------------------------
(* POST /api/analyze: the handler from its entry (requireAuth and the upload  *)
(* parser have passed the request on) to its response.  Both servers carry    *)
(* the same handler.  Everything the PDF parser and the model client throw    *)
(* is an Error object with a message.                                         *)

UploadLimit == 5

NamePool == <<"a.pdf", "b.pdf", "c.pdf", "d.pdf", "e.pdf">>

PdfKinds == {"corrupt", "blank", "text"}

\* uploads of n files: the names of the pool in order or in reverse, any content
Uploads(n) ==
    {[i \in 1..n |-> [originalname |-> NamePool[IF up THEN i ELSE n + 1 - i], pdf |-> k[i]]] :
        up \in BOOLEAN, k \in [1..n -> PdfKinds]}

PdfErrorMessage ==
    <<"I", "n", "v", "a", "l", "i", "d", " ", "P", "D", "F", " ", "s", "t", "r", "u", "c", "t",
      "u", "r", "e", ".">>

ModelErrorMessage ==
    <<"m", "o", "d", "e", "l", " ", "r", "e", "q", "u", "e", "s", "t", " ", "f", "a", "i", "l",
      "e", "d">>

NoFilesMessage ==
    <<"P", "l", "e", "a", "s", "e", " ", "u", "p", "l", "o", "a", "d", " ", "a", "t", " ", "l",
      "e", "a", "s", "t", " ", "o", "n", "e", " ", "P", "D", "F", " ", "f", "i", "l", "e", ".">>

NoTextMessage ==
    <<"N", "o", " ", "t", "e", "x", "t", "u", "a", "l", " ", "c", "o", "n", "t", "e", "n", "t",
      " ", "d", "e", "t", "e", "c", "t", "e", "d", " ", "i", "n", " ", "P", "D", "F", ".">>

ParseFallbackMessage ==
    <<"F", "a", "i", "l", "e", "d", " ", "t", "o", " ", "p", "a", "r", "s", "e", " ", "P", "D",
      "F">>

\* what the model client does with one prompt: it throws, or it answers with a text
ModelThrows == [threw |-> TRUE, text |-> ModelErrorMessage]

ModelSays(text) == [threw |-> FALSE, text |-> text]

ModelAnswers ==
    {ModelThrows, ModelSays(ReplySchemaObject), ModelSays(ReplyNumber), ModelSays(ReplyProse)}

\* extractTextFromPdf on a file of the given kind
extractTextFromPdf(pdf) ==
    CASE pdf = "corrupt" -> [threw |-> TRUE, message |-> PdfErrorMessage, text |-> <<>>, pages |-> 0]
      [] pdf = "blank"   -> [threw |-> FALSE, message |-> <<>>, text |-> <<" ", "\n">>, pages |-> 1]
      [] pdf = "text"    -> [threw |-> FALSE, message |-> <<>>, text |-> <<" ", "x", "\n">>, pages |-> 1]

\* a summarizeForReview that asks the model whether or not one is configured
summarizeForReviewUnguarded(model, answer) ==
    IF answer.threw
    THEN [threw |-> TRUE, message |-> answer.text, value |-> JNull, calls |-> 1]
    ELSE [threw |-> FALSE, message |-> <<>>, value |-> summarizeReply(answer.text), calls |-> 1]

\* a summarizeForReview that asks a second time when the first call failed and
\* hands out the raw-text fallback when the second fails too
summarizeForReviewRetrying(model, answer) ==
    IF ~model THEN [threw |-> FALSE, message |-> <<>>, value |-> WarningSummary, calls |-> 0]
    ELSE IF answer.threw
    THEN [threw |-> FALSE, message |-> <<>>, value |-> UnparsedSummary(<<>>), calls |-> 2]
    ELSE [threw |-> FALSE, message |-> <<>>, value |-> summarizeReply(answer.text), calls |-> 1]

\* summarizeForReview given what the model client does when it is asked;
\* `calls` counts the generateContent calls made
summarizeForReview(model, answer) ==
    IF ~model THEN [threw |-> FALSE, message |-> <<>>, value |-> WarningSummary, calls |-> 0]
    ELSE IF answer.threw
    THEN [threw |-> TRUE, message |-> answer.text, value |-> JNull, calls |-> 1]
    ELSE [threw |-> FALSE, message |-> <<>>, value |-> summarizeReply(answer.text), calls |-> 1]

\* a || b on strings
OrElse(a, b) == IF a = <<>> THEN b ELSE a

\* the result objects; `present` lists the properties the object has
FailedResult(id, file, message) ==
    [id |-> id, originalName |-> file.originalname,
     present |-> {"id", "originalName", "status", "error"},
     status |-> "failed", error |-> message,
     pages |-> 0, characters |-> 0, summary |-> JNull]

SummaryResult(id, file, pages, text, sum) ==
    [id |-> id, originalName |-> file.originalname,
     present |-> {"id", "originalName", "pages", "textContent", "characters", "summary"},
     status |-> "", error |-> <<>>,
     pages |-> pages, characters |-> Len(text), summary |-> sum]

\* a catch that swallows the error of a file
OnFileErrorSwallowed(rs, id, file, message) == rs

\* the catch of the loop body
OnFileError(rs, id, file, message) ==
    Append(rs, FailedResult(id, file, OrElse(message, ParseFallbackMessage)))

NoAnalyzeResponse == [status |-> 0, error |-> <<>>, totalPapers |-> 0, results |-> <<>>]

Outcome(kind, answer) == [kind |-> kind, answer |-> answer]

AnalyzeInit ==
    /\ files \in UNION {Uploads(n) : n \in 0..UploadLimit}
    /\ reviewModel \in BOOLEAN
    /\ cursor = 0
    /\ results = <<>>
    /\ outcomes = <<>>
    /\ invocations = <<>>
    /\ analyzeResp = NoAnalyzeResponse
    /\ aPc = "entered"

AnalyzeIdle ==
    /\ files = <<>>
    /\ reviewModel = FALSE
    /\ cursor = 0
    /\ results = <<>>
    /\ outcomes = <<>>
    /\ invocations = <<>>
    /\ analyzeResp = NoAnalyzeResponse
    /\ aPc = "idle"

\* no file uploaded: 400
AnalyzeReject ==
    /\ aPc = "entered"
    /\ Len(files) = 0
    /\ analyzeResp' = [NoAnalyzeResponse EXCEPT !.status = 400, !.error = NoFilesMessage]
    /\ aPc' = "done"
    /\ UNCHANGED <<files, reviewModel, cursor, results, outcomes, invocations>>
    /\ UNCHANGED <<authVars, coerceVars, extractVars, clientVars>>

\* one pass of the loop body
AnalyzeFile(answer) ==
    /\ aPc \in {"entered", "loop"}
    /\ cursor < Len(files)
    /\ LET file    == files[cursor + 1]
           id      == cursor + 1
           pdf     == extractTextFromPdf(file.pdf)
           trimmed == trim(pdf.text)
           sum     == summarizeForReview(reviewModel, answer)
       IN  IF pdf.threw
           THEN /\ results' = OnFileError(results, id, file, pdf.message)
                /\ outcomes' = Append(outcomes, Outcome("extraction-error", ModelThrows))
           ELSE IF trimmed = <<>>
           THEN /\ results' = Append(results, FailedResult(id, file, NoTextMessage))
                /\ outcomes' = Append(outcomes, Outcome("empty-text", ModelThrows))
           ELSE IF sum.threw
           THEN /\ results' = OnFileError(results, id, file, sum.message)
                /\ outcomes' = Append(outcomes, Outcome("model-error", answer))
           ELSE /\ results' = Append(results, SummaryResult(id, file, pdf.pages, trimmed, sum.value))
                /\ outcomes' = Append(outcomes,
                                      Outcome("success", IF reviewModel THEN answer ELSE ModelThrows))
    /\ invocations' = Append(invocations,
                             IF extractTextFromPdf(files[cursor + 1].pdf).threw
                                \/ trim(extractTextFromPdf(files[cursor + 1].pdf).text) = <<>>
                             THEN 0
                             ELSE summarizeForReview(reviewModel, answer).calls)
    /\ cursor' = cursor + 1
    /\ aPc' = "loop"
    /\ UNCHANGED <<files, reviewModel, analyzeResp>>
    /\ UNCHANGED <<authVars, coerceVars, extractVars, clientVars>>

\* res.json after the loop
AnalyzeRespond ==
    /\ aPc = "loop"
    /\ cursor = Len(files)
    /\ analyzeResp' = [status |-> 200, error |-> <<>>, totalPapers |-> Len(results),
                       results |-> results]
    /\ aPc' = "done"
    /\ UNCHANGED <<files, reviewModel, cursor, results, outcomes, invocations>>
    /\ UNCHANGED <<authVars, coerceVars, extractVars, clientVars>>

AnalyzeNext ==
    \/ AnalyzeReject
    \/ \E answer \in ModelAnswers : AnalyzeFile(answer)
    \/ AnalyzeRespond

---------------------------------------------------------------------------
(* extractTextFromPdf step by step: the parser is built, getText is awaited,  *)
(* destroy is awaited inside the try, the result is read for the return, and  *)
(* the catch awaits destroy again before it rethrows.  What getText and       *)
(* destroy do is the library's choice.                                        *)

\* getText resolves with a result object, resolves with nothing, or rejects
GetTextOutcomes == {"result", "no-result", "throws"}

\* destroy resolves or rejects
DestroyOutcomes == {"ok", "throws"}

\* one more await parser.destroy() on the current parser
Destroyed(ps, outcome) ==
    [ps EXCEPT ![Len(ps)] = [destroyCalls |-> @.destroyCalls + 1,
                             released     |-> @.released + (IF outcome = "ok" THEN 1 ELSE 0)]]

ExtractInit ==
    /\ parsers = <<>>
    /\ eResult = "none"
    /\ eOut = ""
    /\ ePc = "ready"

ExtractIdle ==
    /\ parsers = <<>>
    /\ eResult = "none"
    /\ eOut = ""
    /\ ePc = "idle"

\* new PDFParse({ data: buffer }), once per file of an upload
ExtractOpen ==
    /\ ePc \in {"ready", "done"}
    /\ Len(parsers) < UploadLimit
    /\ parsers' = Append(parsers, [destroyCalls |-> 0, released |-> 0])
    /\ eResult' = "none"
    /\ eOut' = ""
    /\ ePc' = "getText"
    /\ UNCHANGED <<authVars, coerceVars, analyzeVars, clientVars>>

\* const result = await parser.getText()
ExtractGetText(outcome) ==
    /\ ePc = "getText"
    /\ eResult' = IF outcome = "throws" THEN "none" ELSE outcome
    /\ ePc' = IF outcome = "throws" THEN "catch" ELSE "destroy"
    /\ UNCHANGED <<parsers, eOut>>
    /\ UNCHANGED <<authVars, coerceVars, analyzeVars, clientVars>>

\* await parser.destroy() inside the try
ExtractDestroy(outcome) ==
    /\ ePc = "destroy"
    /\ parsers' = Destroyed(parsers, outcome)
    /\ ePc' = IF outcome = "ok" THEN "return" ELSE "catch"
    /\ UNCHANGED <<eResult, eOut>>
    /\ UNCHANGED <<authVars, coerceVars, analyzeVars, clientVars>>

\* return { text: result.text || '', pages: ... }, still inside the try
ExtractReturn ==
    /\ ePc = "return"
    /\ IF eResult = "result"
       THEN eOut' = "returned" /\ ePc' = "done"
       ELSE eOut' = eOut /\ ePc' = "catch"
    /\ UNCHANGED <<parsers, eResult>>
    /\ UNCHANGED <<authVars, coerceVars, analyzeVars, clientVars>>

\* catch (error) { await parser.destroy(); throw error; }
ExtractCatch(outcome) ==
    /\ ePc = "catch"
    /\ parsers' = Destroyed(parsers, outcome)
    /\ eOut' = "threw"
    /\ ePc' = "done"
    /\ UNCHANGED eResult
    /\ UNCHANGED <<authVars, coerceVars, analyzeVars, clientVars>>

ExtractNext ==
    \/ ExtractOpen
    \/ \E o \in GetTextOutcomes : ExtractGetText(o)
    \/ \E o \in DestroyOutcomes : ExtractDestroy(o)
    \/ ExtractReturn
    \/ \E o \in DestroyOutcomes : ExtractCatch(o)

---------------------------------------------------------------------------
(* The page of src/public/app.js: the list of chosen files, the analyze      *)
(* button and the analyze() calls whose fetch has not settled yet.  Every     *)
(* handler runs to its end, or to its await, before the next event is taken.  *)

SelectionLimit == 5

\* what a drop or a file dialog can hand over: up to one file more than fits
Picks == UNION {[1..n -> {"a.pdf", "b.pdf"}] : n \in 0..(SelectionLimit + 1)}

\* how the fetch of analyze() can settle
FetchOutcomes == {"ok", "401", "refused", "network-error"}

\* Array.prototype.slice(0, end) for end >= 0
slice(list, end) == SubSeq(list, 1, IF end < Len(list) THEN end ELSE Len(list))

\* Array.prototype.splice(index, 1), index counted from 1
splice(list, index) == SubSeq(list, 1, index - 1) \o SubSeq(list, index + 1, Len(list))

\* the page as loaded; the markup decides whether the button starts disabled
ClientInit ==
    /\ selected = <<>>
    /\ analyzeDisabled \in BOOLEAN
    /\ inFlight = 0
    /\ statusText = ""
    /\ cPc = "open"

ClientIdle ==
    /\ selected = <<>>
    /\ analyzeDisabled = TRUE
    /\ inFlight = 0
    /\ statusText = ""
    /\ cPc = "idle"

\* handleFiles, from a drop or from the file input's change event
handleFiles(picked) ==
    /\ cPc = "open"
    /\ selected' = selected \o slice(picked, SelectionLimit - Len(selected))
    /\ analyzeDisabled' = (Len(selected') = 0)
    /\ UNCHANGED <<inFlight, statusText, cPc>>
    /\ UNCHANGED <<authVars, coerceVars, analyzeVars, extractVars>>

\* the click handler of a file's Remove button
RemoveFile(index) ==
    /\ cPc = "open"
    /\ index \in 1..Len(selected)
    /\ selected' = splice(selected, index)
    /\ analyzeDisabled' = (Len(selected') = 0)
    /\ UNCHANGED <<inFlight, statusText, cPc>>
    /\ UNCHANGED <<authVars, coerceVars, analyzeVars, extractVars>>

\* a click on the analyze button: analyze() up to its await fetch(...); a
\* disabled button fires no click
AnalyzeClick ==
    /\ cPc = "open"
    /\ ~analyzeDisabled
    /\ inFlight < MaxInFlight
    /\ analyzeDisabled' = TRUE
    /\ statusText' = "Uploading & parsing"
    /\ inFlight' = inFlight + 1
    /\ UNCHANGED <<selected, cPc>>
    /\ UNCHANGED <<authVars, coerceVars, analyzeVars, extractVars>>

\* the fetch of one analyze() call settles: the rest of its try, then finally
AnalyzeSettle(outcome) ==
    /\ cPc = "open"
    /\ inFlight > 0
    /\ inFlight' = inFlight - 1
    /\ statusText' = CASE outcome = "ok"  -> "Done"
                        [] outcome = "401" -> statusText
                        [] OTHER           -> "error"
    /\ analyzeDisabled' = (Len(selected) = 0)
    /\ UNCHANGED <<selected, cPc>>
    /\ UNCHANGED <<authVars, coerceVars, analyzeVars, extractVars>>

ClientNext ==
    \/ \E picked \in Picks : handleFiles(picked)
    \/ \E index \in 1..SelectionLimit : RemoveFile(index)
    \/ AnalyzeClick
    \/ \E outcome \in FetchOutcomes : AnalyzeSettle(outcome)

---------------------------------------------------------------------------
(* Specifications *)

vars == <<authVars, coerceVars, analyzeVars, extractVars, clientVars>>

AuthIdle ==
    /\ variant = "session"
    /\ userStore = EmptyMap
    /\ dbUsers = {}
    /\ sessions = EmptyMap
    /\ pending = EmptyBag
    /\ nextId = 0
    /\ nextCred = 0
    /\ issued = {}
    /\ revoked = {}
    /\ prevUsers = {}
    /\ loginFailures = [k \in {"unknown", "wrong-password"} |-> NoBody]
    /\ resp = NoResponse

\* either server at start, nothing uploaded
Init == AuthInit /\ CoerceIdle /\ AnalyzeIdle /\ ExtractIdle /\ ClientIdle

InitToken == Init /\ variant = "token"

InitSession == Init /\ variant = "session"

\* the model has answered a prompt
InitCoerce == CoerceInit /\ AuthIdle /\ AnalyzeIdle /\ ExtractIdle /\ ClientIdle

\* the analyze handler is entered with an upload
InitAnalyze == AnalyzeInit /\ AuthIdle /\ CoerceIdle /\ ExtractIdle /\ ClientIdle

\* extractTextFromPdf is about to be called
InitExtract == ExtractInit /\ AuthIdle /\ CoerceIdle /\ AnalyzeIdle /\ ClientIdle

\* the page has just loaded
InitClient == ClientInit /\ AuthIdle /\ CoerceIdle /\ AnalyzeIdle /\ ExtractIdle

\* the session gate of either server
Spec == Init /\ [][AuthNext]_vars

\* signup, login and logout of either server
SpecAccounts == Init /\ [][AccountNext]_vars

\* the session gate of the bearer-token server alone
SpecToken == InitToken /\ [][TokenNext]_vars

\* the session gate of the cookie-session server alone
SpecSession == InitSession /\ [][SessionNext]_vars

\* the summarization step on every reply
SpecCoerce == InitCoerce /\ [][CoerceNext]_vars

\* the page under any order of drops, removals, clicks and settling requests
SpecClient == InitClient /\ [][ClientNext]_vars

\* extractTextFromPdf on the files of one upload
SpecExtract == InitExtract /\ [][ExtractNext]_vars

\* the analyze handler on every upload
SpecAnalyze == InitAnalyze /\ [][AnalyzeNext]_vars

---------------------------------------------------------------------------
(* Claims about the session gate *)

\* C1: a session-bound route (analyze, export) admits a request only if it
\* presents a credential handed out by an earlier successful signup or login;
\* any other value, a registered email used as bearer token included, is
\* answered 401.
C1_AdmitsOnlyIssuedCredentials ==
    resp.op \in SessionBound =>
        /\ resp.admitted => resp.cred \in issued
        /\ resp.cred \notin issued => resp.status = 401

\* C2: once its holder's logout has completed, a credential no longer
\* authenticates: a session-bound request presenting it is answered 401.
C2_LoggedOutCredentialRejected ==
    (resp.op \in SessionBound /\ resp.cred \in revoked) =>
        (~resp.admitted /\ resp.status = 401)

\* C3: the store never holds two users with one normalized email, and the
\* signup that loses is answered 409, establishes no session and leaves the
\* stored users as they were.
C3_LosingSignupGets409 ==
    /\ \A u1, u2 \in StoredUsers : u1.email = u2.email => u1 = u2
    /\ (resp.op = "signup" /\ resp.outcome = "conflict") =>
          /\ resp.status = 409
          /\ resp.newCred = NoCred
          /\ StoredUsers = prevUsers

CasePairs == {<<Uppers[i], Lowers[i]>> : i \in DOMAIN Uppers}

\* out is `raw` without its leading and trailing whitespace, in lower case
IsTrimmedLowerCase(out, raw) ==
    \E i, j \in 0..Len(raw) :
        /\ i + j <= Len(raw)
        /\ Len(out) = Len(raw) - i - j
        /\ \A k \in 1..i : raw[k] \in Whitespace
        /\ \A k \in (Len(raw) - j + 1)..Len(raw) : raw[k] \in Whitespace
        /\ \A k \in 1..Len(out) :
              /\ out[k] \notin UpperCase
              /\ out[k] = raw[i + k] \/ <<raw[i + k], out[k]>> \in CasePairs
        /\ out # <<>> => (out[1] \notin Whitespace /\ out[Len(out)] \notin Whitespace)

\* the identity the new credential resolves to
SessionIdentity(cred) ==
    IF variant = "token"
    THEN (IF cred \in DOMAIN userStore THEN userStore[cred] ELSE NoUser)
    ELSE (IF cred \in DOMAIN sessions THEN sessions[cred] ELSE NoUser)

\* C4: after a successful signup the email of the identity returned, of the
\* identity kept in the session and of the stored user all equal the input
\* email trimmed and lower-cased.
C4_SignupEmailNormalized ==
    (resp.op = "signup" /\ resp.status = 200) =>
        /\ IsTrimmedLowerCase(resp.user.email, resp.rawEmail)
        /\ SessionIdentity(resp.newCred) = resp.user
        /\ \E u \in StoredUsers : u.id = resp.user.id /\ u.email = resp.user.email

C4_Witness ==
    /\ resp.op = "signup"
    /\ resp.status = 200
    /\ resp.rawEmail = <<" ", "A", " ">>
    /\ resp.user.email = <<"a">>

\* C5: a signup whose email is empty (also once trimmed) or whose password
\* has fewer than 6 characters is answered 400, creates no user and no
\* session; no stored user has an empty email.
C5_InvalidSignupRejected ==
    /\ \A u \in StoredUsers : u.email # <<>>
    /\ (resp.op = "signup"
          /\ (\A k \in 1..Len(resp.rawEmail) : resp.rawEmail[k] \in Whitespace
              \/ Len(resp.password) < MinPasswordLen)) =>
          /\ resp.status = 400
          /\ resp.newCred = NoCred
          /\ StoredUsers = prevUsers

---------------------------------------------------------------------------
(* Claims about analysis, summarization and coercion *)

IsStringValue(v) == v.kind = "string"

IsStringList(v) ==
    v.kind = "array" /\ \A k \in 1..Len(v.items) : v.items[k].kind = "string"

HasMember(v, key) == \E p \in 1..Len(v.keys) : v.keys[p] = key

Member(v, key) == v.items[CHOOSE p \in 1..Len(v.keys) : v.keys[p] = key]

\* v has the five fields of the schema, each of the type the schema gives it
IsSummaryObject(v) ==
    /\ v.kind = "object"
    /\ \A key \in {KeyConciseSummary, KeyNovelty, KeyLimitations} :
          HasMember(v, key) /\ IsStringValue(Member(v, key))
    /\ \A key \in {KeyKeyPoints, KeyNextQuestions} :
          HasMember(v, key) /\ IsStringList(Member(v, key))

\* v is { unparsed_summary: <string>, parsing_note: <the fixed string> }
IsUnparsedFailure(v) ==
    /\ v.kind = "object"
    /\ v.keys = <<KeyUnparsedSummary, KeyParsingNote>>
    /\ IsStringValue(v.items[1])
    /\ v.items[2] = JString(ParsingNote)

\* the result is the one its own file and its own outcome call for
ResultOf(r, file, o) ==
    /\ r.originalName = file.originalname
    /\ (r.status = "failed") <=> (o.kind # "success")
    /\ o.kind = "extraction-error" => (file.pdf = "corrupt" /\ r.error = PdfErrorMessage)
    /\ o.kind = "empty-text" => (file.pdf = "blank" /\ r.error = NoTextMessage)
    /\ o.kind = "model-error" => (file.pdf = "text" /\ r.error = ModelErrorMessage)
    /\ o.kind = "success" =>
          /\ file.pdf = "text"
          /\ "summary" \in r.present
          /\ r.summary = IF reviewModel THEN summarizeReply(o.answer.text) ELSE WarningSummary

\* C7: for every upload of 1 to 5 files and every combination of per-file
\* outcomes, the handler answers with exactly as many results as files, the
\* i-th result carries the i-th file's name, and each result is the one its own
\* file and outcome call for, whatever happened to the other files.
C7_OneResultPerFileInOrder ==
    /\ Len(results) = cursor
    /\ \A i \in 1..Len(results) :
          i <= Len(files) /\ i <= Len(outcomes) /\ ResultOf(results[i], files[i], outcomes[i])
    /\ \A i, j \in 1..Len(results) : i # j => results[i].id # results[j].id
    /\ (aPc = "done" /\ Len(files) >= 1) =>
          /\ analyzeResp.status = 200
          /\ analyzeResp.totalPapers = Len(files)
          /\ analyzeResp.results = results
          /\ Len(results) = Len(files)

\* three files, the second not a PDF: three results, the second failed, the
\* first and third with their summaries
C7_Witness ==
    /\ aPc = "done"
    /\ Len(files) = 3
    /\ Len(analyzeResp.results) = 3
    /\ outcomes[1].kind = "success"
    /\ outcomes[2].kind = "extraction-error"
    /\ outcomes[3].kind = "success"
    /\ analyzeResp.results[2].status = "failed"
    /\ analyzeResp.results[1].status # "failed"
    /\ analyzeResp.results[3].status # "failed"

IsWarningSummary(v) == v = WarningSummary

\* the four states of a result
ExtractionFailed(r) == r.status = "failed" /\ "summary" \notin r.present

SchemaSummary(r) == "summary" \in r.present /\ IsSummaryObject(r.summary)

WarningSummaryState(r) == "summary" \in r.present /\ IsWarningSummary(r.summary)

UnparsedSummaryState(r) == "summary" \in r.present /\ IsUnparsedFailure(r.summary)

StatesOf(r) ==
    {st \in {"extraction-failed", "schema-summary", "warning-summary", "unparsed-summary"} :
        \/ st = "extraction-failed" /\ ExtractionFailed(r)
        \/ st = "schema-summary" /\ SchemaSummary(r)
        \/ st = "warning-summary" /\ WarningSummaryState(r)
        \/ st = "unparsed-summary" /\ UnparsedSummaryState(r)}

\* C8: every result the handler returns has status "ok" or "failed", has an
\* error string exactly when its status is "failed", and is in exactly one of
\* the states extraction-failed, schema-summary, warning-summary,
\* unparsed-summary.
C8_ResultStatusAndState ==
    \A i \in 1..Len(analyzeResp.results) :
        LET r == analyzeResp.results[i]
        IN  /\ "status" \in r.present
            /\ r.status \in {"ok", "failed"}
            /\ ("error" \in r.present) <=> (r.status = "failed")
            /\ Cardinality(StatesOf(r)) = 1

\* C9: whatever the reply, the summarization step returns an object that
\* conforms to the SummaryObject schema or the unparsed-summary failure,
\* never a number, string, boolean or array.
C9_SummaryIsSchemaOrUnparsed ==
    sumPc = "returned" => (IsSummaryObject(summary) \/ IsUnparsedFailure(summary))

\* C10: a reply that is itself strictly valid JSON of a SummaryObject is
\* returned with its fields equal to those of the strict parse of the reply,
\* also when its strings hold typographic quotes.
C10_StrictReplyRoundTrips ==
    (sumPc = "returned" /\ JSONparse(reply).ok /\ IsSummaryObject(JSONparse(reply).val)) =>
        summary = JSONparse(reply).val

\* C11: for every reply that coerces to a value, the same reply wrapped in an
\* opening code fence (with or without language tag) and a closing code fence
\* coerces to the same value.
C11_FencedCoercesAlike ==
    (sumPc = "fenced" /\ Truthy(coerced)) => fenced.coerced = coerced

HasBrace(text) == \E k \in 1..Len(text) : text[k] \in {"{", "}"}

\* C12: a non-empty reply without braces comes back as
\* {unparsed_summary: <the raw reply>, parsing_note: <the fixed string>}.
C12_NoBraceReplyIsUnparsed ==
    (sumPc = "returned" /\ trim(reply) # <<>> /\ ~HasBrace(reply)) =>
        summary = UnparsedSummary(trim(reply))

\* C13: in the session-backed server a request for a documented route reaches
\* the route's handler: POST /api/analyze from a caller who holds a session,
\* with at least one PDF, is answered 200 by the handler, and GET /health is
\* answered 200; neither is answered by the unknown-route redirect.
C13_DocumentedRoutesReachHandlers ==
    variant = "session" =>
        /\ (resp.op = "analyze" /\ resp.cred \in DOMAIN sessions /\ resp.payload = "ok") =>
              (resp.admitted /\ resp.status = 200)
        /\ resp.op = "health" => resp.status = 200

\* C14: POST /api/export answers a caller without session with 401, and a
\* caller who holds a session and posts a non-empty results array with the
\* download (200), with 400 only when results is missing or empty.
C14_ExportRequiresAndServesSession ==
    (variant = "session" /\ resp.op = "export") =>
        /\ resp.cred \notin DOMAIN sessions => resp.status = 401
        /\ (resp.cred \in DOMAIN sessions /\ resp.payload = "ok") =>
              (resp.admitted /\ resp.status = 200)
        /\ (resp.cred \in DOMAIN sessions /\ resp.payload = "empty") => resp.status = 400

\* the caller of the last request held a credential the server had handed out
Authenticated ==
    IF variant = "token" THEN resp.cred \in issued ELSE resp.cred \in DOMAIN sessions

\* C15: an analyze upload from an authenticated caller that breaks an upload
\* limit (a part over 20MB, more than 5 parts, a part that is not a PDF) is
\* answered with status 400 and a JSON error, not with a redirect and not with
\* results.
C15_UploadLimitAnswered400 ==
    (resp.op = "analyze" /\ resp.payload \in MulterCodes /\ Authenticated) =>
        (resp.status = 400 /\ resp.error # "")

\* the routes that ask for a session
SessionRoutes == {"analyze", "export", "logout", "session-get"}

\* C16: every rejection of an unauthenticated caller by a route that asks for
\* a session has the same status and the same error body, whether the
\* credential is absent, malformed or unknown, and whichever the route.
C16_UniformRejection ==
    (resp.op \in SessionRoutes /\ ~Authenticated /\ ~resp.admitted /\ resp.status # 200) =>
        Body(resp) = [status |-> 401, error |-> "Authentication required"]

\* C17: when no model client is configured, no file leads to a model call, and
\* every file whose extracted text is not empty gets the {warning} summary.
C17_NoModelNoCallWarningSummary ==
    ~reviewModel =>
        \A i \in 1..Len(results) :
            /\ invocations[i] = 0
            /\ trim(extractTextFromPdf(files[i].pdf).text) # <<>> =>
                  /\ "summary" \in results[i].present
                  /\ results[i].summary = WarningSummary
                  /\ results[i].status # "failed"

\* no model client; a file with text got the warning, a file without did not
C17_Witness ==
    /\ aPc = "done"
    /\ ~reviewModel
    /\ \E i \in 1..Len(analyzeResp.results) :
          files[i].pdf = "text" /\ analyzeResp.results[i].summary = WarningSummary
    /\ \E i \in 1..Len(analyzeResp.results) :
          files[i].pdf = "blank" /\ analyzeResp.results[i].status = "failed"

\* C18: within one analyze call the model is called at most once per file and
\* only for files whose trimmed text is not empty; when the call fails it is
\* not repeated, the file's result is a failed result with the error, and it
\* has no summary.
C18_OneModelCallPerFileNoRetry ==
    /\ Len(invocations) = Len(results)
    /\ \A i \in 1..Len(results) :
          /\ invocations[i] <= 1
          /\ invocations[i] = 1 =>
                (reviewModel /\ trim(extractTextFromPdf(files[i].pdf).text) # <<>>)
          /\ outcomes[i].kind = "model-error" =>
                /\ invocations[i] = 1
                /\ results[i].status = "failed"
                /\ results[i].error = ModelErrorMessage
                /\ "summary" \notin results[i].present
          /\ (reviewModel /\ files[i].pdf = "text") =>
                outcomes[i].kind \in {"model-error", "success"}

\* the model failed on the second of three files and answered for the others
C18_Witness ==
    /\ aPc = "done"
    /\ Len(files) = 3
    /\ outcomes[2].kind = "model-error"
    /\ invocations = <<1, 1, 1>>
    /\ analyzeResp.results[2].status = "failed"
    /\ "summary" \in analyzeResp.results[1].present
    /\ "summary" \in analyzeResp.results[3].present

\* C19: every parser extractTextFromPdf opened is released when the call has
\* ended, by return or by throw, and destroy was awaited on it exactly once,
\* also when destroy itself or the reading of the result failed.
C19_ParserReleasedExactlyOnce ==
    \A i \in 1..Len(parsers) :
        (i < Len(parsers) \/ ePc = "done") => parsers[i].destroyCalls = 1

\* the four texts in the listed order: the normalized text, the text without its
\* "json" label, the brace block of the first, the brace block of the second
ListedCandidates(raw) ==
    LET normalizedText == normalizeQuotes(stripCodeFences(raw))
        prefixStripped == stripJsonPrefix(normalizedText)
    IN  <<Some(normalizedText), Some(prefixStripped),
          extractJsonBlock(normalizedText), extractJsonBlock(prefixStripped)>>

\* a candidate that is present and parses
Usable(c) == c.some /\ c.text # <<>> /\ JSONparse(c.text).ok

\* C20: coercion returns the parse of the first of the four listed candidates
\* that parses; a later candidate's parse is returned only when every earlier
\* candidate is absent or fails to parse, and null when none parses.
C20_FirstParsingCandidateWins ==
    (sumPc = "returned" /\ trim(reply) # <<>>) =>
        LET listed == ListedCandidates(trim(reply))
        IN  /\ \A k \in 1..Len(listed) :
                   (Usable(listed[k]) /\ \A j \in 1..(k - 1) : ~Usable(listed[j]))
                       => coerced = JSONparse(listed[k].text).val
            /\ (\A k \in 1..Len(listed) : ~Usable(listed[k])) => coerced = JNull

\* a labelled array that holds an object: the whole text fails, the text
\* without its label parses to the array and is returned, though both brace
\* blocks would parse to the object inside
C20_Witness ==
    /\ sumPc = "returned"
    /\ trim(reply) # <<>>
    /\ LET listed == ListedCandidates(trim(reply))
       IN  /\ ~Usable(listed[1])
           /\ Usable(listed[2])
           /\ Usable(listed[3])
           /\ JSONparse(listed[3].text).val # JSONparse(listed[2].text).val
           /\ coerced = JSONparse(listed[2].text).val

\* a value whose fields can be read: typeof 'object' and not null
IsNonNullObject(v) == v.kind \in {"object", "array"}

\* C21: whatever summary a result carries (none, an object, an array, a number,
\* a boolean, a string, also a string whose text is JSON), coerceSummary and
\* ensureSummaryObject both return a non-null object.
C21_CoercionsReturnObject ==
    sumPc = "rendered" =>
        (IsNonNullObject(shown.display) /\ IsNonNullObject(shown.export))

\* C22: in the page, whatever the order of adding files, removing files and
\* analyze requests, the list of chosen files never holds more than 5 files, at
\* most one analyze request is in flight, and the analyze button is disabled
\* for as long as a request is in flight.
C22_AtMostFiveFilesOneRequest ==
    cPc = "open" =>
        /\ Len(selected) <= 5
        /\ inFlight <= 1
        /\ inFlight > 0 => analyzeDisabled

====
